---- MODULE Spec2Model ----
(***************************************************************************)
(* A model of rellic's Z3ConvVisitor (rellic/AST/Z3ConvVisitor.cpp): the   *)
(* translator between clang expressions and Z3 terms, and the four tables  *)
(* it keeps (z3_expr_map/z3_expr_vec, z3_decl_map/z3_decl_vec, c_expr_map, *)
(* c_decl_map).                                                            *)
(*                                                                         *)
(* Representation.                                                         *)
(*  - A clang type is a sequence of strings: <<"int">>, <<"ptr","int">>,   *)
(*    <<"arr","int">>; <<>> is the null QualType.                          *)
(*  - A clang::Expr* of the input AST is a node name of the table Node; an *)
(*    expression built by the reverse translator is a record (CExpr).      *)
(*  - A z3::sort is a record [kind, size, sname]; a z3::expr is a record   *)
(*    [op, name, sort, val, hi, lo, args] (op is the decl kind).           *)
(*  - A fatal CHECK / LOG(FATAL) sets fatal: the process is gone and no    *)
(*    further request is served.                                           *)
(***************************************************************************)
EXTENDS Integers, Sequences, FiniteSets, TLC

VARIABLES
    z3_expr_map,    \* clang::Expr*      -> index into z3_expr_vec (0-based)
    z3_expr_vec,    \* the z3::expr's, in insertion order
    z3_decl_map,    \* clang::ValueDecl* -> index into z3_decl_vec (0-based)
    z3_decl_vec,    \* the z3::func_decl's, in insertion order
    c_expr_map,     \* z3::expr hash     -> clang::Expr* (built C expression)
    c_decl_map,     \* z3 func_decl id   -> clang::ValueDecl*
    fatal,          \* a CHECK failed or LOG(FATAL) ran
    last,           \* the last request served and what it returned
    nreq,           \* number of requests served so far
    ub_name_read,   \* what reading the dangling `name` pointer yields in this build
    hash_alias,     \* the terms of this run that share one z3 hash value
    fn_in,          \* input of the pure helper under test
    fn_out          \* its output

vars ==
    <<z3_expr_map, z3_expr_vec, z3_decl_map, z3_decl_vec, c_expr_map, c_decl_map,
      fatal, last, nreq, ub_name_read, hash_alias, fn_in, fn_out>>

----------------------------------------------------------------------------
(* Bounds of the model *)

\* requests a client makes in one run
MaxReq == 2

----------------------------------------------------------------------------
(* clang types *)

\* ASTContext::getPointerType
PointerTo(t) == <<"ptr">> \o t

IsPointerType(t) == Len(t) > 0 /\ Head(t) = "ptr"

IsArrayType(t) == Len(t) > 0 /\ Head(t) = "arr"

\* Type::getPointeeType
PointeeType(t) == Tail(t)

\* ASTContext::getArrayDecayedType: T[n] decays to T*
ArrayDecayedType(t) == PointerTo(Tail(t))

IsBooleanType(t) == t = <<"bool">>

IsStructureType(t) == t \in {<<"S">>, <<"T">>}

IsSignedIntegerType(t) == t \in {<<"schar">>, <<"short">>, <<"int">>, <<"long">>}

IsUnsignedIntegerType(t) ==
    t \in {<<"bool">>, <<"uchar">>, <<"ushort">>, <<"uint">>, <<"ulong">>}

IsIntegerType(t) == IsSignedIntegerType(t) \/ IsUnsignedIntegerType(t)

IsCharType(t) == t \in {<<"schar">>, <<"uchar">>}

\* number of elements of the array types of the input program
ArrayLen == 4

\* ASTContext::getTypeSize / getIntWidth, in bits (LP64)
RECURSIVE TypeSize(_)
TypeSize(t) ==
    IF t = <<>> THEN 0
    ELSE IF IsPointerType(t) THEN 64
    ELSE IF IsArrayType(t) THEN ArrayLen * TypeSize(Tail(t))
    ELSE CASE Head(t) \in {"bool", "schar", "uchar"} -> 8
           [] Head(t) \in {"short", "ushort"} -> 16
           [] Head(t) \in {"int", "uint", "S"} -> 32
           [] Head(t) \in {"long", "ulong", "T"} -> 64
           [] OTHER -> 8

\* ASTContext::getIntTypeForBitwidth; <<>> (null) when no integer type has that width
IntTypeForBitwidth(size, sign) ==
    CASE size = 8  -> IF sign THEN <<"schar">> ELSE <<"uchar">>
      [] size = 16 -> IF sign THEN <<"short">> ELSE <<"ushort">>
      [] size = 32 -> IF sign THEN <<"int">> ELSE <<"uint">>
      [] size = 64 -> IF sign THEN <<"long">> ELSE <<"ulong">>
      [] OTHER -> <<>>

\* ASTContext::getIntegerRank
IntegerRank(t) ==
    CASE t \in {<<"bool">>} -> 1
      [] t \in {<<"schar">>, <<"uchar">>} -> 2
      [] t \in {<<"short">>, <<"ushort">>} -> 3
      [] t \in {<<"int">>, <<"uint">>} -> 4
      [] t \in {<<"long">>, <<"ulong">>} -> 5
      [] OTHER -> 0

\* ASTContext::getIntegerTypeOrder: -1, 0 or 1
IntegerTypeOrder(l, r) ==
    IF l = r THEN 0
    ELSE IF IsUnsignedIntegerType(l) = IsUnsignedIntegerType(r)
         THEN IF IntegerRank(l) = IntegerRank(r) THEN 0
              ELSE IF IntegerRank(l) > IntegerRank(r) THEN 1 ELSE -1
    ELSE IF IsUnsignedIntegerType(l)
         THEN IF IntegerRank(l) >= IntegerRank(r) THEN 1 ELSE -1
    ELSE IF IntegerRank(r) >= IntegerRank(l) THEN -1 ELSE 1

----------------------------------------------------------------------------
(* z3 sorts and terms *)

BoolSort == [kind |-> "bool", size |-> 0, sname |-> ""]

BvSort(n) == [kind |-> "bv", size |-> n, sname |-> ""]

UninterpretedSort(name) == [kind |-> "uninterpreted", size |-> 0, sname |-> name]

\* the bytes a read through the dangling c_str() pointer yields once the
\* temporary std::string's buffer has been reused
StaleBytes == "<stale>"

\* a name read through `auto name = ...getNameAsString().c_str()`
DanglingName(name) == IF ub_name_read = "intact" THEN name ELSE StaleBytes

GetZ3SortSize(sort) ==
    CASE sort.kind = "bool" -> 1
      [] sort.kind = "bv" -> sort.size
      [] OTHER -> 0

MkTerm(op, name, sort, val, hi, lo, args) ==
    [op |-> op, name |-> name, sort |-> sort, val |-> val, hi |-> hi, lo |-> lo,
     args |-> args]

NullTerm == MkTerm("null", <<>>, BoolSort, 0, 0, 0, <<>>)

\* z3::context::constant / func_decl::operator()(): a 0-ary application
Z3Const(name, sort) == MkTerm("uninterpreted", name, sort, 0, 0, 0, <<>>)

\* application of the uninterpreted function z3_ctx->function(fname, ..., range)
Z3Func(fname, range, args) == MkTerm("uninterpreted", <<fname>>, range, 0, 0, 0, args)

\* z3::context::num_val / bv_val
NumVal(v, sort) == MkTerm("bnum", <<>>, sort, v, 0, 0, <<>>)

\* z3::context::bool_val
BoolVal(b) == MkTerm(IF b THEN "true" ELSE "false", <<>>, BoolSort, 0, 0, 0, <<>>)

Z3Not(a) == MkTerm("not", <<>>, BoolSort, 0, 0, 0, <<a>>)

Z3And(a, b) == MkTerm("and", <<>>, BoolSort, 0, 0, 0, <<a, b>>)

Z3Or(a, b) == MkTerm("or", <<>>, BoolSort, 0, 0, 0, <<a, b>>)

Z3Eq(a, b) == MkTerm("eq", <<>>, BoolSort, 0, 0, 0, <<a, b>>)

\* z3::operator!= builds Z3_mk_distinct over the two operands
Z3Distinct(a, b) == MkTerm("distinct", <<>>, BoolSort, 0, 0, 0, <<a, b>>)

\* a binary bit-vector operator: bsrem, badd, bsub, band, bxor, bashr, blshr
Z3BvBin(op, a, b) == MkTerm(op, <<>>, a.sort, 0, 0, 0, <<a, b>>)

\* z3::sext(e, n) / z3::zext(e, n)
Z3SignExt(e, n) == MkTerm("sign_ext", <<>>, BvSort(e.sort.size + n), 0, n, 0, <<e>>)

Z3ZeroExt(e, n) == MkTerm("zero_ext", <<>>, BvSort(e.sort.size + n), 0, n, 0, <<e>>)

\* z3::expr::extract(hi, lo): bits hi..lo, of width hi - lo + 1
Z3Extract(e, hi, lo) == MkTerm("extract", <<>>, BvSort(hi - lo + 1), 0, hi, lo, <<e>>)

IsBool(t) == t.sort.kind = "bool"

IsBv(t) == t.sort.kind = "bv"

\* z3::expr::decl(): the function symbol of a 0-ary application
FuncDeclOf(t) == [name |-> t.name, range |-> t.sort]

NullDecl == [name |-> <<>>, range |-> BoolSort]

\* Z3_get_func_decl_id: z3 hash-conses declarations, so two declarations have
\* the same id exactly when they have the same name and sort
FuncDeclId(fd) == <<fd.name, fd.range>>

\* z3::func_decl::arity of a term's declaration: and, or and the bit-vector
\* operators are declared binary whatever the number of arguments applied
DeclArity(t) ==
    CASE t.op \in {"and", "or", "eq", "bsrem", "badd", "bsub", "band", "bxor",
                    "bashr", "blshr"} -> 2
      [] t.op \in {"not", "extract", "sign_ext", "zero_ext"} -> 1
      [] OTHER -> Len(t.args)

\* z3::expr::simplify on the comparison built by Z3BoolCast: a numeral operand
\* folds to true/false, otherwise (distinct a 0) is rewritten to (not (= a 0))
Simplify(t) ==
    IF t.op = "distinct" /\ Len(t.args) = 2
    THEN IF t.args[1].op = "bnum" /\ t.args[2].op = "bnum"
         THEN BoolVal(t.args[1].val # t.args[2].val)
         ELSE Z3Not(Z3Eq(t.args[1], t.args[2]))
    ELSE t

\* z3::expr::hash: equal terms have equal hashes; the terms of hash_alias are
\* the distinct terms of this run whose hashes coincide
ExprHash(t) ==
    IF \E i \in 1..Len(hash_alias) : hash_alias[i] = t
    THEN hash_alias[1]
    ELSE t

----------------------------------------------------------------------------
(* The input program: declarations and expression nodes (owned by clang) *)

MkDecl(kind, name, type, addr, paddr, pname, init) ==
    [kind |-> kind, name |-> name, type |-> type, addr |-> addr, paddr |-> paddr,
     pname |-> pname, init |-> init]

\* clang::ValueDecl objects. d_x and d_x2 are two variables named x (one
\* shadows the other); d_f, d_g are fields of struct S and d_h is the field
\* named f of struct T; d_y has an initializer; d_fn is a function.
Decl ==
    ( "d_x"   :> MkDecl("var", "x", <<"int">>, "0xa0", "", "", "") ) @@
    ( "d_x2"  :> MkDecl("var", "x", <<"int">>, "0xa1", "", "", "") ) @@
    ( "d_u"   :> MkDecl("var", "u", <<"uint">>, "0xa2", "", "", "") ) @@
    ( "d_p"   :> MkDecl("var", "p", <<"ptr", "int">>, "0xa3", "", "", "") ) @@
    ( "d_arr" :> MkDecl("var", "arr", <<"arr", "int">>, "0xa4", "", "", "") ) @@
    ( "d_a"   :> MkDecl("var", "a", <<"S">>, "0xa5", "", "", "") ) @@
    ( "d_y"   :> MkDecl("var", "y", <<"int">>, "0xa6", "", "", "n_5") ) @@
    ( "d_f"   :> MkDecl("field", "f", <<"int">>, "0xb0", "0xc0", "S", "") ) @@
    ( "d_g"   :> MkDecl("field", "g", <<"int">>, "0xb1", "0xc0", "S", "") ) @@
    ( "d_h"   :> MkDecl("field", "f", <<"int">>, "0xb2", "0xc1", "T", "") ) @@
    ( "d_fn"  :> MkDecl("function", "fn", <<"fnty">>, "0xa7", "", "", "") )

Decls == DOMAIN Decl

MkNode(kind, op, type, sub, decl, val) ==
    [kind |-> kind, op |-> op, type |-> type, sub |-> sub, decl |-> decl, val |-> val]

\* clang::Expr objects of the input AST, by name; sub lists the children
Node ==
    ( "n_x"    :> MkNode("DeclRefExpr", "", <<"int">>, <<>>, "d_x", 0) ) @@
    ( "n_x2"   :> MkNode("DeclRefExpr", "", <<"int">>, <<>>, "d_x2", 0) ) @@
    ( "n_u"    :> MkNode("DeclRefExpr", "", <<"uint">>, <<>>, "d_u", 0) ) @@
    ( "n_p"    :> MkNode("DeclRefExpr", "", <<"ptr", "int">>, <<>>, "d_p", 0) ) @@
    ( "n_arr"  :> MkNode("DeclRefExpr", "", <<"arr", "int">>, <<>>, "d_arr", 0) ) @@
    ( "n_a"    :> MkNode("DeclRefExpr", "", <<"S">>, <<>>, "d_a", 0) ) @@
    ( "n_y"    :> MkNode("DeclRefExpr", "", <<"int">>, <<>>, "d_y", 0) ) @@
    ( "n_fn"   :> MkNode("DeclRefExpr", "", <<"fnty">>, <<>>, "d_fn", 0) ) @@
    ( "n_0"    :> MkNode("IntegerLiteral", "", <<"int">>, <<>>, "", 0) ) @@
    ( "n_5"    :> MkNode("IntegerLiteral", "", <<"int">>, <<>>, "", 5) ) @@
    ( "n_1l"   :> MkNode("IntegerLiteral", "", <<"ulong">>, <<>>, "", 1) ) @@
    ( "n_true" :> MkNode("IntegerLiteral", "", <<"bool">>, <<>>, "", 1) ) @@
    ( "n_ch"   :> MkNode("CharacterLiteral", "", <<"uchar">>, <<>>, "", 65) ) @@
    ( "n_notp" :> MkNode("UnaryOperator", "LNot", <<"int">>, <<"n_p">>, "", 0) ) @@
    ( "n_notb" :> MkNode("UnaryOperator", "LNot", <<"int">>, <<"n_eq">>, "", 0) ) @@
    ( "n_addr" :> MkNode("UnaryOperator", "AddrOf", <<"ptr", "int">>, <<"n_x">>, "", 0) ) @@
    ( "n_der"  :> MkNode("UnaryOperator", "Deref", <<"int">>, <<"n_p">>, "", 0) ) @@
    ( "n_neg"  :> MkNode("UnaryOperator", "Minus", <<"int">>, <<"n_x">>, "", 0) ) @@
    ( "n_land" :> MkNode("BinaryOperator", "LAnd", <<"int">>, <<"n_x", "n_eq">>, "", 0) ) @@
    ( "n_lor"  :> MkNode("BinaryOperator", "LOr", <<"int">>, <<"n_p", "n_0">>, "", 0) ) @@
    ( "n_eq"   :> MkNode("BinaryOperator", "EQ", <<"int">>, <<"n_x", "n_5">>, "", 0) ) @@
    ( "n_ne"   :> MkNode("BinaryOperator", "NE", <<"int">>, <<"n_x", "n_0">>, "", 0) ) @@
    ( "n_rem"  :> MkNode("BinaryOperator", "Rem", <<"int">>, <<"n_x", "n_5">>, "", 0) ) @@
    ( "n_add"  :> MkNode("BinaryOperator", "Add", <<"int">>, <<"n_x", "n_x2">>, "", 0) ) @@
    ( "n_sub"  :> MkNode("BinaryOperator", "Sub", <<"int">>, <<"n_x", "n_5">>, "", 0) ) @@
    ( "n_and"  :> MkNode("BinaryOperator", "And", <<"uint">>, <<"n_u", "n_u">>, "", 0) ) @@
    ( "n_xor"  :> MkNode("BinaryOperator", "Xor", <<"int">>, <<"n_x", "n_x2">>, "", 0) ) @@
    ( "n_shr"  :> MkNode("BinaryOperator", "Shr", <<"int">>, <<"n_x", "n_5">>, "", 0) ) @@
    ( "n_shru" :> MkNode("BinaryOperator", "Shr", <<"uint">>, <<"n_u", "n_u">>, "", 0) ) @@
    ( "n_mul"  :> MkNode("BinaryOperator", "Mul", <<"int">>, <<"n_x", "n_5">>, "", 0) ) @@
    ( "n_nar"  :> MkNode("CStyleCastExpr", "IntegralCast", <<"uchar">>, <<"n_x">>, "", 0) ) @@
    ( "n_wid"  :> MkNode("CStyleCastExpr", "IntegralCast", <<"long">>, <<"n_x">>, "", 0) ) @@
    ( "n_widu" :> MkNode("CStyleCastExpr", "IntegralCast", <<"ulong">>, <<"n_u">>, "", 0) ) @@
    ( "n_same" :> MkNode("CStyleCastExpr", "IntegralCast", <<"uint">>, <<"n_x">>, "", 0) ) @@
    ( "n_p2i"  :> MkNode("CStyleCastExpr", "PointerToIntegral", <<"long">>, <<"n_p">>, "", 0) ) @@
    ( "n_i2p"  :> MkNode("CStyleCastExpr", "IntegralToPointer", <<"ptr", "int">>, <<"n_1l">>, "", 0) ) @@
    ( "n_null" :> MkNode("CStyleCastExpr", "NullToPointer", <<"ptr", "int">>, <<"n_0">>, "", 0) ) @@
    ( "n_bitc" :> MkNode("CStyleCastExpr", "BitCast", <<"ptr", "uint">>, <<"n_p">>, "", 0) ) @@
    ( "n_dec"  :> MkNode("ImplicitCastExpr", "ArrayToPointerDecay", <<"ptr", "int">>, <<"n_arr">>, "", 0) ) @@
    ( "n_lv"   :> MkNode("ImplicitCastExpr", "LValueToRValue", <<"int">>, <<"n_x">>, "", 0) ) @@
    ( "n_idx"  :> MkNode("ArraySubscriptExpr", "", <<"int">>, <<"n_dec", "n_x">>, "", 0) ) @@
    ( "n_mf"   :> MkNode("MemberExpr", "", <<"int">>, <<"n_a">>, "d_f", 0) ) @@
    ( "n_mg"   :> MkNode("MemberExpr", "", <<"int">>, <<"n_a">>, "d_g", 0) ) @@
    ( "n_mgf"  :> MkNode("BinaryOperator", "Add", <<"int">>, <<"n_mg", "n_mf">>, "", 0) ) @@
    ( "n_parx" :> MkNode("ParenExpr", "", <<"int">>, <<"n_x">>, "", 0) ) @@
    ( "n_para" :> MkNode("ParenExpr", "", <<"int">>, <<"n_add">>, "", 0) ) @@
    ( "n_pard" :> MkNode("ParenExpr", "", <<"int">>, <<"n_der">>, "", 0) ) @@
    ( "n_parp" :> MkNode("ParenExpr", "", <<"int">>, <<"n_pard">>, "", 0) ) @@
    ( "n_call" :> MkNode("CallExpr", "", <<"int">>, <<"n_fn">>, "", 0) ) @@
    ( "n_addc" :> MkNode("BinaryOperator", "Add", <<"int">>, <<"n_x", "n_call">>, "", 0) ) @@
    ( "n_cond" :> MkNode("ConditionalOperator", "", <<"int">>, <<"n_x", "n_5", "n_0">>, "", 0) )

Nodes == DOMAIN Node

----------------------------------------------------------------------------
(* Helpers of the anonymous namespace, and the registry *)

\* CreateZ3DeclName: the declaration's address in hex, '_', its name
CreateZ3DeclName(addr, name) == <<addr, name>>

\* CreateZ3BitwiseCast; NullTerm stands for the failed CHECK(expr.is_bv())
CreateZ3BitwiseCast(expr, src, dst, sign) ==
    IF ~IsBv(expr) THEN NullTerm
    ELSE LET diff == dst - src
         IN IF diff > 0
            THEN (IF sign THEN Z3SignExt(expr, diff) ELSE Z3ZeroExt(expr, diff))
            ELSE IF diff < 0 THEN Z3Extract(expr, dst, 1)
            ELSE expr

\* a boolean cast that compares every term with zero, boolean ones too
Z3BoolCast_AlwaysCompare(expr) == Simplify(Z3Distinct(expr, NumVal(0, expr.sort)))

\* a boolean cast that hands every term back as it is
Z3BoolCast_Identity(expr) == expr

\* Z3ConvVisitor::Z3BoolCast
Z3BoolCast(expr) ==
    IF IsBool(expr) THEN expr
    ELSE Simplify(Z3Distinct(expr, NumVal(0, expr.sort)))

\* Z3ConvVisitor::GetZ3Sort (the floating-point branch is not modelled: the
\* input program has no floating type)
GetZ3Sort(type) ==
    IF IsBooleanType(type) THEN BoolSort
    ELSE IF IsStructureType(type) THEN UninterpretedSort(DanglingName(Head(type)))
    ELSE BvSort(TypeSize(type))

\* the registry and the abort flag, as threaded through one request
St ==
    [z3_expr_map |-> z3_expr_map, z3_expr_vec |-> z3_expr_vec,
     z3_decl_map |-> z3_decl_map, z3_decl_vec |-> z3_decl_vec,
     c_expr_map |-> c_expr_map, c_decl_map |-> c_decl_map, fatal |-> fatal]

\* CHECK(...) failed or LOG(FATAL)
Fatal(st) == [st EXCEPT !.fatal = TRUE]

EmptyMap == [k \in {} |-> 0]

InsertZ3Expr(st, c_expr, z_expr) ==
    IF st.fatal THEN st
    ELSE IF c_expr \in DOMAIN st.z3_expr_map THEN Fatal(st)
    ELSE [st EXCEPT !.z3_expr_map = (c_expr :> Len(st.z3_expr_vec)) @@ @,
                    !.z3_expr_vec = Append(@, z_expr)]

\* GetZ3Expr's CHECK(iter != z3_expr_map.end())
HasZ3Expr(st, c_expr) == c_expr \in DOMAIN st.z3_expr_map

\* GetZ3Expr's return value (NullTerm where the CHECK fails)
GetZ3Expr(st, c_expr) ==
    IF HasZ3Expr(st, c_expr) THEN st.z3_expr_vec[st.z3_expr_map[c_expr] + 1]
    ELSE NullTerm

InsertZ3Decl(st, c_decl, z_decl) ==
    IF st.fatal THEN st
    ELSE IF c_decl \in DOMAIN st.z3_decl_map THEN Fatal(st)
    ELSE [st EXCEPT !.z3_decl_map = (c_decl :> Len(st.z3_decl_vec)) @@ @,
                    !.z3_decl_vec = Append(@, z_decl)]

HasZ3Decl(st, c_decl) == c_decl \in DOMAIN st.z3_decl_map

GetZ3Decl(st, c_decl) ==
    IF HasZ3Decl(st, c_decl) THEN st.z3_decl_vec[st.z3_decl_map[c_decl] + 1]
    ELSE NullDecl

\* an insert without the CHECK: it replaces the mapping of a mapped key
InsertCExpr_Overwrite(st, z_expr, c_expr) ==
    IF st.fatal THEN st
    ELSE [st EXCEPT !.c_expr_map =
                        [k \in (DOMAIN @) \cup {ExprHash(z_expr)} |->
                            IF k = ExprHash(z_expr) THEN c_expr ELSE @[k]]]

InsertCExpr(st, z_expr, c_expr) ==
    IF st.fatal THEN st
    ELSE IF ExprHash(z_expr) \in DOMAIN st.c_expr_map THEN Fatal(st)
    ELSE [st EXCEPT !.c_expr_map = (ExprHash(z_expr) :> c_expr) @@ @]

HasCExpr(st, z_expr) == ExprHash(z_expr) \in DOMAIN st.c_expr_map

MkCExpr(kind, op, type, sub, decl, val) ==
    [kind |-> kind, op |-> op, type |-> type, sub |-> sub, decl |-> decl, val |-> val]

\* nullptr as a clang::Expr*
NullExpr == MkCExpr("null", "", <<>>, <<>>, "", 0)

GetCExpr(st, z_expr) ==
    IF HasCExpr(st, z_expr) THEN st.c_expr_map[ExprHash(z_expr)] ELSE NullExpr

InsertCValDecl(st, z_decl, c_decl) ==
    IF st.fatal THEN st
    ELSE IF FuncDeclId(z_decl) \in DOMAIN st.c_decl_map THEN Fatal(st)
    ELSE [st EXCEPT !.c_decl_map = (FuncDeclId(z_decl) :> c_decl) @@ @]

HasCValDecl(st, z_decl) == FuncDeclId(z_decl) \in DOMAIN st.c_decl_map

GetCValDecl(st, z_decl) ==
    IF HasCValDecl(st, z_decl) THEN st.c_decl_map[FuncDeclId(z_decl)] ELSE ""

----------------------------------------------------------------------------
(* Forward translator: clang::Expr -> z3::expr.  Every operator takes the    *)
(* registry st and returns it as the call leaves it.  TraverseStmt and       *)
(* TraverseDecl are clang's RecursiveASTVisitor: the children first, then    *)
(* the node's own Visit method, if the class defines one.                    *)

RECURSIVE TraverseStmt(_, _)
RECURSIVE TraverseChildren(_, _, _)
RECURSIVE TraverseDecl(_, _)
RECURSIVE GetOrCreateZ3Expr(_, _)
RECURSIVE GetOrCreateZ3Decl(_, _)

\* the encoding of a QualType as an integer (QualType::getAsOpaquePtr): its
\* place in the type table of the AST context
TypeTable ==
    << <<"ptr", "int">>, <<"ptr", "uint">>, <<"int">>, <<"uint">>, <<"long">> >>

OpaquePtrBase == 4096

GetAsOpaquePtr(type) ==
    OpaquePtrBase + (CHOOSE i \in 1..Len(TypeTable) : TypeTable[i] = type)

\* QualType::getFromOpaquePtr; <<>> for a value that is no type's address
GetFromOpaquePtr(v) ==
    IF v - OpaquePtrBase \in 1..Len(TypeTable) THEN TypeTable[v - OpaquePtrBase]
    ELSE <<>>

\* bit width of a pointer: 8 * sizeof(void *)
PtrBits == 64

VisitVarDecl(st, var) ==
    IF st.fatal \/ HasZ3Decl(st, var) THEN st
    ELSE LET z_name == CreateZ3DeclName(Decl[var].addr, Decl[var].name)
             z_sort == GetZ3Sort(Decl[var].type)
             z_const == Z3Const(z_name, z_sort)
         IN InsertZ3Decl(st, var, FuncDeclOf(z_const))

\* `name` is read after the std::string it points into was destroyed
VisitFieldDecl(st, field) ==
    IF st.fatal \/ HasZ3Decl(st, field) THEN st
    ELSE LET name == DanglingName(Decl[field].name)
             z_name == CreateZ3DeclName(Decl[field].paddr, Decl[field].pname)
                           \o <<name>>
             z_sort == GetZ3Sort(Decl[field].type)
             z_const == Z3Const(z_name, z_sort)
         IN InsertZ3Decl(st, field, FuncDeclOf(z_const))

VisitFunctionDecl(st, func) == Fatal(st)

VisitCallExpr(st, call) == Fatal(st)

VisitCharacterLiteral(st, c_lit) ==
    IF st.fatal \/ HasZ3Expr(st, c_lit) THEN st
    ELSE InsertZ3Expr(st, c_lit, NumVal(Node[c_lit].val, GetZ3Sort(Node[c_lit].type)))

VisitIntegerLiteral(st, c_lit) ==
    IF st.fatal \/ HasZ3Expr(st, c_lit) THEN st
    ELSE LET c_val == Node[c_lit].val
             z_sort == GetZ3Sort(Node[c_lit].type)
             z_val == IF z_sort.kind = "bool" THEN BoolVal(c_val # 0)
                      ELSE NumVal(c_val, z_sort)
         IN InsertZ3Expr(st, c_lit, z_val)

\* VisitCStyleCastExpr from CreateZ3BitwiseCast on; st holds the operand's term
CStyleCastOf(st, c_cast) ==
    IF st.fatal THEN st
    ELSE LET c_sub == Node[c_cast].sub[1]
             t_src == Node[c_sub].type
             t_dst == Node[c_cast].type
             z_sub == GetZ3Expr(st, c_sub)
             z_cast == CreateZ3BitwiseCast(z_sub, TypeSize(t_src), TypeSize(t_dst),
                                           IsSignedIntegerType(t_src))
             kind == Node[c_cast].op
         IN IF z_cast = NullTerm THEN Fatal(st)
            ELSE CASE kind = "PointerToIntegral" ->
                        InsertZ3Expr(st, c_cast, Z3Func("PtrToInt", z_cast.sort, <<z_sub>>))
                   [] kind = "IntegralToPointer" ->
                        LET z_ptr == NumVal(GetAsOpaquePtr(t_dst), BvSort(PtrBits))
                        IN InsertZ3Expr(st, c_cast,
                                        Z3Func("IntToPtr", z_cast.sort, <<z_ptr, z_sub>>))
                   [] kind \in {"IntegralCast", "NullToPointer"} ->
                        InsertZ3Expr(st, c_cast, z_cast)
                   [] OTHER -> Fatal(st)

VisitCStyleCastExpr(st, c_cast) ==
    IF st.fatal \/ HasZ3Expr(st, c_cast) THEN st
    ELSE CStyleCastOf(GetOrCreateZ3Expr(st, Node[c_cast].sub[1]), c_cast)

\* VisitImplicitCastExpr from the switch on
ImplicitCastOf(st, c_cast) ==
    IF st.fatal THEN st
    ELSE LET z_sub == GetZ3Expr(st, Node[c_cast].sub[1])
         IN CASE Node[c_cast].op = "ArrayToPointerDecay" ->
                    IF ~IsBv(z_sub) THEN Fatal(st)
                    ELSE InsertZ3Expr(st, c_cast,
                             Z3Func("PtrDecay", GetZ3Sort(Node[c_cast].type), <<z_sub>>))
              [] OTHER -> Fatal(st)

VisitImplicitCastExpr(st, c_cast) ==
    IF st.fatal \/ HasZ3Expr(st, c_cast) THEN st
    ELSE ImplicitCastOf(GetOrCreateZ3Expr(st, Node[c_cast].sub[1]), c_cast)

\* VisitArraySubscriptExpr: the CHECK on the base's sort, then the index
ArraySubscriptIdx(st, sub) ==
    IF st.fatal THEN st
    ELSE IF ~IsBv(GetZ3Expr(st, Node[sub].sub[1])) THEN Fatal(st)
    ELSE GetOrCreateZ3Expr(st, Node[sub].sub[2])

\* VisitArraySubscriptExpr: the CHECK on the index's sort, then the result
ArraySubscriptOf(st, sub) ==
    IF st.fatal THEN st
    ELSE LET z_base == GetZ3Expr(st, Node[sub].sub[1])
             z_idx == GetZ3Expr(st, Node[sub].sub[2])
             elm_sort == GetZ3Sort(Node[sub].type)
         IN IF ~IsBv(z_idx) THEN Fatal(st)
            ELSE InsertZ3Expr(st, sub, Z3Func("ArraySub", elm_sort, <<z_base, z_idx>>))

VisitArraySubscriptExpr(st, sub) ==
    IF st.fatal \/ HasZ3Expr(st, sub) THEN st
    ELSE ArraySubscriptOf(
             ArraySubscriptIdx(GetOrCreateZ3Expr(st, Node[sub].sub[1]), sub), sub)

\* VisitMemberExpr from z3_ctx->function("Member", ...) on
MemberOf(st, expr) ==
    IF st.fatal THEN st
    ELSE LET z_decl == GetZ3Decl(st, Node[expr].decl)
             z_mem == Z3Const(z_decl.name, z_decl.range)
             z_base == GetZ3Expr(st, Node[expr].sub[1])
         IN InsertZ3Expr(st, expr, Z3Func("Member", z_mem.sort, <<z_base, z_mem>>))

VisitMemberExpr(st, expr) ==
    IF st.fatal \/ HasZ3Expr(st, expr) THEN st
    ELSE MemberOf(GetOrCreateZ3Expr(GetOrCreateZ3Decl(st, Node[expr].decl),
                                    Node[expr].sub[1]), expr)

\* a VisitParenExpr that ignores the parentheses around every term
ParenOf_NeverWrap(st, parens) ==
    IF st.fatal THEN st
    ELSE InsertZ3Expr(st, parens, GetZ3Expr(st, Node[parens].sub[1]))

\* VisitParenExpr from the switch on
ParenOf(st, parens) ==
    IF st.fatal THEN st
    ELSE LET z_sub == GetZ3Expr(st, Node[parens].sub[1])
         IN CASE z_sub.op = "uninterpreted" ->
                    InsertZ3Expr(st, parens, Z3Func("Paren", z_sub.sort, <<z_sub>>))
              [] OTHER -> InsertZ3Expr(st, parens, z_sub)

VisitParenExpr(st, parens) ==
    IF st.fatal \/ HasZ3Expr(st, parens) THEN st
    ELSE ParenOf(GetOrCreateZ3Expr(st, Node[parens].sub[1]), parens)

\* VisitUnaryOperator from the switch on
UnaryOperatorOf(st, c_op) ==
    IF st.fatal THEN st
    ELSE LET operand == GetZ3Expr(st, Node[c_op].sub[1])
             opc == Node[c_op].op
         IN CASE opc = "LNot" -> InsertZ3Expr(st, c_op, Z3Not(Z3BoolCast(operand)))
              [] opc = "AddrOf" ->
                    InsertZ3Expr(st, c_op,
                        Z3Func("AddrOf", GetZ3Sort(Node[c_op].type), <<operand>>))
              [] opc = "Deref" ->
                    InsertZ3Expr(st, c_op,
                        Z3Func("Deref", GetZ3Sort(Node[c_op].type), <<operand>>))
              [] OTHER -> Fatal(st)

VisitUnaryOperator(st, c_op) ==
    IF st.fatal \/ HasZ3Expr(st, c_op) THEN st
    ELSE UnaryOperatorOf(GetOrCreateZ3Expr(st, Node[c_op].sub[1]), c_op)

\* VisitBinaryOperator from the switch on
BinaryOperatorOf(st, c_op) ==
    IF st.fatal THEN st
    ELSE LET lhs == GetZ3Expr(st, Node[c_op].sub[1])
             rhs == GetZ3Expr(st, Node[c_op].sub[2])
             opc == Node[c_op].op
         IN CASE opc = "LAnd" ->
                    InsertZ3Expr(st, c_op, Z3And(Z3BoolCast(lhs), Z3BoolCast(rhs)))
              [] opc = "LOr" ->
                    InsertZ3Expr(st, c_op, Z3Or(Z3BoolCast(lhs), Z3BoolCast(rhs)))
              [] opc = "EQ" -> InsertZ3Expr(st, c_op, Z3Eq(lhs, rhs))
              [] opc = "NE" -> InsertZ3Expr(st, c_op, Z3Distinct(lhs, rhs))
              [] opc = "Rem" -> InsertZ3Expr(st, c_op, Z3BvBin("bsrem", lhs, rhs))
              [] opc = "Add" -> InsertZ3Expr(st, c_op, Z3BvBin("badd", lhs, rhs))
              [] opc = "Sub" -> InsertZ3Expr(st, c_op, Z3BvBin("bsub", lhs, rhs))
              [] opc = "And" -> InsertZ3Expr(st, c_op, Z3BvBin("band", lhs, rhs))
              [] opc = "Xor" -> InsertZ3Expr(st, c_op, Z3BvBin("bxor", lhs, rhs))
              [] opc = "Shr" ->
                    InsertZ3Expr(st, c_op,
                        IF IsSignedIntegerType(Node[Node[c_op].sub[1]].type)
                        THEN Z3BvBin("bashr", lhs, rhs)
                        ELSE Z3BvBin("blshr", lhs, rhs))
              [] OTHER -> Fatal(st)

VisitBinaryOperator(st, c_op) ==
    IF st.fatal \/ HasZ3Expr(st, c_op) THEN st
    ELSE BinaryOperatorOf(GetOrCreateZ3Expr(GetOrCreateZ3Expr(st, Node[c_op].sub[1]),
                                            Node[c_op].sub[2]), c_op)

\* VisitDeclRefExpr from InsertZ3Expr(c_ref, z_const()) on
DeclRefOf(st, c_ref) ==
    IF st.fatal THEN st
    ELSE LET z_const == GetZ3Decl(st, Node[c_ref].decl)
         IN InsertZ3Expr(st, c_ref, Z3Const(z_const.name, z_const.range))

VisitDeclRefExpr(st, c_ref) ==
    IF st.fatal \/ HasZ3Expr(st, c_ref) THEN st
    ELSE DeclRefOf(GetOrCreateZ3Decl(st, Node[c_ref].decl), c_ref)

\* RecursiveASTVisitor::WalkUpFrom...Decl: the Visit method of the declaration's class
WalkUpFromDecl(st, c_decl) ==
    CASE Decl[c_decl].kind = "var" -> VisitVarDecl(st, c_decl)
      [] Decl[c_decl].kind = "field" -> VisitFieldDecl(st, c_decl)
      [] Decl[c_decl].kind = "function" -> VisitFunctionDecl(st, c_decl)
      [] OTHER -> st

\* RecursiveASTVisitor::TraverseDecl: a variable's initializer is traversed too
TraverseDecl(st, c_decl) ==
    IF st.fatal THEN st
    ELSE IF Decl[c_decl].kind = "var" /\ Decl[c_decl].init # ""
         THEN WalkUpFromDecl(TraverseStmt(st, Decl[c_decl].init), c_decl)
         ELSE WalkUpFromDecl(st, c_decl)

\* GetOrCreateZ3Decl from `auto z_decl = GetZ3Decl(c_decl)` on
RegisterCValDecl(st, c_decl) ==
    IF st.fatal THEN st
    ELSE IF ~HasZ3Decl(st, c_decl) THEN Fatal(st)
    ELSE IF ~HasCValDecl(st, GetZ3Decl(st, c_decl))
         THEN InsertCValDecl(st, GetZ3Decl(st, c_decl), c_decl)
    ELSE st

GetOrCreateZ3Decl(st, c_decl) ==
    IF st.fatal THEN st
    ELSE IF ~HasZ3Decl(st, c_decl)
         THEN RegisterCValDecl(TraverseDecl(st, c_decl), c_decl)
         ELSE RegisterCValDecl(st, c_decl)

\* a GetZ3Expr that returns without its CHECK
CheckedZ3Expr_NoCheck(st, c_expr) == st

\* the CHECK of GetZ3Expr, as GetOrCreateZ3Expr returns through it
CheckedZ3Expr(st, c_expr) ==
    IF st.fatal THEN st
    ELSE IF ~HasZ3Expr(st, c_expr) THEN Fatal(st)
    ELSE st

GetOrCreateZ3Expr(st, c_expr) ==
    IF st.fatal THEN st
    ELSE IF ~HasZ3Expr(st, c_expr)
         THEN CheckedZ3Expr(TraverseStmt(st, c_expr), c_expr)
         ELSE CheckedZ3Expr(st, c_expr)

TraverseChildren(st, sub, i) ==
    IF i > Len(sub) \/ st.fatal THEN st
    ELSE TraverseChildren(TraverseStmt(st, sub[i]), sub, i + 1)

\* RecursiveASTVisitor::WalkUpFrom...: the Visit method of the node's class;
\* a class without one (ConditionalOperator, ...) is passed over
WalkUpFrom(st, c_expr) ==
    CASE Node[c_expr].kind = "CStyleCastExpr" -> VisitCStyleCastExpr(st, c_expr)
      [] Node[c_expr].kind = "ImplicitCastExpr" -> VisitImplicitCastExpr(st, c_expr)
      [] Node[c_expr].kind = "ArraySubscriptExpr" -> VisitArraySubscriptExpr(st, c_expr)
      [] Node[c_expr].kind = "MemberExpr" -> VisitMemberExpr(st, c_expr)
      [] Node[c_expr].kind = "CallExpr" -> VisitCallExpr(st, c_expr)
      [] Node[c_expr].kind = "ParenExpr" -> VisitParenExpr(st, c_expr)
      [] Node[c_expr].kind = "UnaryOperator" -> VisitUnaryOperator(st, c_expr)
      [] Node[c_expr].kind = "BinaryOperator" -> VisitBinaryOperator(st, c_expr)
      [] Node[c_expr].kind = "DeclRefExpr" -> VisitDeclRefExpr(st, c_expr)
      [] Node[c_expr].kind = "CharacterLiteral" -> VisitCharacterLiteral(st, c_expr)
      [] Node[c_expr].kind = "IntegerLiteral" -> VisitIntegerLiteral(st, c_expr)
      [] OTHER -> st

TraverseStmt(st, c_expr) ==
    IF st.fatal THEN st
    ELSE WalkUpFrom(TraverseChildren(st, Node[c_expr].sub, 1), c_expr)

----------------------------------------------------------------------------
(* Reverse translator: z3::expr -> clang::Expr *)

\* The node factories of rellic/AST/Util.h, as their call sites use them
CreateIntegerLiteral(val, type) == MkCExpr("IntegerLiteral", "", type, <<>>, "", val)

CreateCharacterLiteral(val, type) == MkCExpr("CharacterLiteral", "", type, <<>>, "", val)

CreateDeclRefExpr(decl) == MkCExpr("DeclRefExpr", "", Decl[decl].type, <<>>, decl, 0)

CreateUnaryOperator(opc, sub, type) == MkCExpr("UnaryOperator", opc, type, <<sub>>, "", 0)

CreateNotExpr(sub) == CreateUnaryOperator("LNot", sub, <<"int">>)

CreateBinaryOperator(opc, lhs, rhs, type) ==
    MkCExpr("BinaryOperator", opc, type, <<lhs, rhs>>, "", 0)

CreateCStyleCastExpr(type, kind, sub) == MkCExpr("CStyleCastExpr", kind, type, <<sub>>, "", 0)

CreateImplicitCastExpr(type, kind, sub) ==
    MkCExpr("ImplicitCastExpr", kind, type, <<sub>>, "", 0)

CreateParenExpr(sub) == MkCExpr("ParenExpr", "", sub.type, <<sub>>, "", 0)

CreateMemberExpr(base, mem, type) == MkCExpr("MemberExpr", "", type, <<base>>, mem, 0)

CreateArraySubscriptExpr(base, idx, type) ==
    MkCExpr("ArraySubscriptExpr", "", type, <<base, idx>>, "", 0)

\* Z3ConvVisitor::CreateLiteralExpr; NullExpr stands for LOG(FATAL), and a
\* literal of the null type for the use of a null QualType
CreateLiteralExpr(z_expr) ==
    CASE z_expr.sort.kind = "bool" ->
            CreateIntegerLiteral(IF z_expr.op = "true" THEN 1 ELSE 0, <<"uint">>)
      [] z_expr.sort.kind = "bv" ->
            LET type == IntTypeForBitwidth(GetZ3SortSize(z_expr.sort), FALSE)
            IN IF IsCharType(type) THEN CreateCharacterLiteral(z_expr.val, type)
               ELSE CreateIntegerLiteral(z_expr.val, type)
      [] OTHER -> NullExpr

RECURSIVE VisitZ3Expr(_, _)
RECURSIVE VisitArgs(_, _, _)
RECURSIVE GetOrCreateCExpr(_, _)

VisitConstant(st, z_const) ==
    IF st.fatal THEN st
    ELSE IF Len(z_const.args) # 0 THEN Fatal(st)
    ELSE CASE z_const.op \in {"true", "false", "anum", "bnum"} ->
                LET c_expr == CreateLiteralExpr(z_const)
                IN IF c_expr = NullExpr \/ c_expr.type = <<>> THEN Fatal(st)
                   ELSE InsertCExpr(st, z_const, c_expr)
           [] z_const.op = "internal" -> InsertCExpr(st, z_const, NullExpr)
           [] z_const.op = "uninterpreted" ->
                IF ~HasCValDecl(st, FuncDeclOf(z_const)) THEN Fatal(st)
                ELSE InsertCExpr(st, z_const,
                         CreateDeclRefExpr(GetCValDecl(st, FuncDeclOf(z_const))))
           [] OTHER -> Fatal(st)

\* a null c_sub (the operand was an internal constant) is dereferenced by
\* c_sub->getType(): the request does not survive it
VisitUnaryApp(st, z_op) ==
    IF st.fatal THEN st
    ELSE IF ~(Len(z_op.args) >= 1 /\ DeclArity(z_op) = 1) THEN Fatal(st)
    ELSE IF ~HasCExpr(st, z_op.args[1]) THEN Fatal(st)
    ELSE LET c_sub == GetCExpr(st, z_op.args[1])
             t_sub == c_sub.type
         IN IF c_sub = NullExpr THEN Fatal(st)
            ELSE CASE z_op.op = "not" -> InsertCExpr(st, z_op, CreateNotExpr(c_sub))
                   [] z_op.op = "extract" ->
                        IF ~IsIntegerType(t_sub) THEN Fatal(st)
                        ELSE LET s_size == GetZ3SortSize(z_op.sort)
                                 t_sign == IsSignedIntegerType(t_sub)
                                 t_op == IntTypeForBitwidth(s_size, t_sign)
                             IN InsertCExpr(st, z_op,
                                    CreateCStyleCastExpr(t_op, "IntegralCast", c_sub))
                   [] z_op.op = "uninterpreted" ->
                        CASE z_op.name = <<"AddrOf">> ->
                                InsertCExpr(st, z_op,
                                    CreateUnaryOperator("AddrOf", c_sub, PointerTo(t_sub)))
                          [] z_op.name = <<"Deref">> ->
                                IF ~IsPointerType(t_sub) THEN Fatal(st)
                                ELSE InsertCExpr(st, z_op,
                                         CreateUnaryOperator("Deref", c_sub,
                                                             PointeeType(t_sub)))
                          [] z_op.name = <<"Paren">> ->
                                InsertCExpr(st, z_op, CreateParenExpr(c_sub))
                          [] z_op.name = <<"PtrDecay">> ->
                                IF ~IsArrayType(t_sub) THEN Fatal(st)
                                ELSE InsertCExpr(st, z_op,
                                         CreateImplicitCastExpr(ArrayDecayedType(t_sub),
                                             "ArrayToPointerDecay", c_sub))
                          [] z_op.name = <<"PtrToInt">> ->
                                InsertCExpr(st, z_op,
                                    CreateCStyleCastExpr(
                                        IntTypeForBitwidth(GetZ3SortSize(z_op.sort), FALSE),
                                        "PointerToIntegral", c_sub))
                          [] OTHER -> Fatal(st)
                   [] OTHER -> Fatal(st)

\* the lambda GetIntResultType of VisitBinaryApp
GetIntResultType(lhs, rhs) ==
    IF IntegerTypeOrder(lhs.type, rhs.type) < 0 THEN rhs.type ELSE lhs.type

\* the loops of the Z3_OP_AND / Z3_OP_OR cases: c_op folded over arg(i..)
RECURSIVE FoldLogical(_, _, _, _, _)
FoldLogical(st, z_op, opc, i, c_op) ==
    IF i > Len(z_op.args) THEN c_op
    ELSE FoldLogical(st, z_op, opc, i + 1,
             CreateBinaryOperator(opc, c_op, GetCExpr(st, z_op.args[i]), <<"bool">>))

VisitBinaryApp(st, z_op) ==
    IF st.fatal THEN st
    ELSE IF ~(Len(z_op.args) >= 2 /\ DeclArity(z_op) = 2) THEN Fatal(st)
    ELSE IF ~HasCExpr(st, z_op.args[1]) \/ ~HasCExpr(st, z_op.args[2]) THEN Fatal(st)
    ELSE LET lhs == GetCExpr(st, z_op.args[1])
             rhs == GetCExpr(st, z_op.args[2])
         IN CASE z_op.op = "eq" ->
                    InsertCExpr(st, z_op, CreateBinaryOperator("EQ", lhs, rhs, <<"bool">>))
              [] z_op.op = "and" ->
                    IF \E i \in 2..Len(z_op.args) : ~HasCExpr(st, z_op.args[i])
                    THEN Fatal(st)
                    ELSE InsertCExpr(st, z_op, FoldLogical(st, z_op, "LAnd", 2, lhs))
              [] z_op.op = "or" ->
                    IF \E i \in 2..Len(z_op.args) : ~HasCExpr(st, z_op.args[i])
                    THEN Fatal(st)
                    ELSE InsertCExpr(st, z_op, FoldLogical(st, z_op, "LOr", 2, lhs))
              [] z_op.op = "badd" ->
                    IF lhs = NullExpr \/ rhs = NullExpr THEN Fatal(st)
                    ELSE InsertCExpr(st, z_op,
                             CreateBinaryOperator("Add", lhs, rhs,
                                                  GetIntResultType(lhs, rhs)))
              [] z_op.op \in {"bsrem", "bsrem_i"} ->
                    IF lhs = NullExpr \/ rhs = NullExpr THEN Fatal(st)
                    ELSE InsertCExpr(st, z_op,
                             CreateBinaryOperator("Rem", lhs, rhs,
                                                  GetIntResultType(lhs, rhs)))
              [] z_op.op = "uninterpreted" ->
                    CASE z_op.name = <<"ArraySub">> ->
                            IF lhs = NullExpr \/ ~IsPointerType(lhs.type) THEN Fatal(st)
                            ELSE InsertCExpr(st, z_op,
                                     CreateArraySubscriptExpr(lhs, rhs,
                                                              PointeeType(lhs.type)))
                      [] z_op.name = <<"Member">> ->
                            IF ~HasCValDecl(st, FuncDeclOf(z_op.args[2])) THEN Fatal(st)
                            ELSE LET mem == GetCValDecl(st, FuncDeclOf(z_op.args[2]))
                                 IN InsertCExpr(st, z_op,
                                        CreateMemberExpr(lhs, mem, Decl[mem].type))
                      [] z_op.name = <<"IntToPtr">> ->
                            IF lhs.kind # "IntegerLiteral" THEN Fatal(st)
                            ELSE InsertCExpr(st, z_op,
                                     CreateCStyleCastExpr(GetFromOpaquePtr(lhs.val),
                                                          "IntegralToPointer", rhs))
                      [] OTHER -> Fatal(st)
              [] OTHER -> Fatal(st)

\* the CHECK of GetCExpr, as GetOrCreateCExpr returns through it
CheckedCExpr(st, z_expr) ==
    IF st.fatal THEN st
    ELSE IF ~HasCExpr(st, z_expr) THEN Fatal(st)
    ELSE st

\* a GetOrCreateCExpr that does not consult c_expr_map first
GetOrCreateCExpr_NoMemo(st, z_expr) ==
    IF st.fatal THEN st
    ELSE CheckedCExpr(VisitZ3Expr(st, z_expr), z_expr)

GetOrCreateCExpr(st, z_expr) ==
    IF st.fatal THEN st
    ELSE IF ~HasCExpr(st, z_expr)
         THEN CheckedCExpr(VisitZ3Expr(st, z_expr), z_expr)
         ELSE CheckedCExpr(st, z_expr)

\* the loop over z_expr.arg(i) at the head of VisitZ3Expr
VisitArgs(st, args, i) ==
    IF i > Len(args) \/ st.fatal THEN st
    ELSE VisitArgs(GetOrCreateCExpr(st, args[i]), args, i + 1)

\* the switch of VisitZ3Expr on the declaration's arity
VisitApp(st, z_expr) ==
    CASE DeclArity(z_expr) = 0 -> VisitConstant(st, z_expr)
      [] DeclArity(z_expr) = 1 -> VisitUnaryApp(st, z_expr)
      [] DeclArity(z_expr) = 2 -> VisitBinaryApp(st, z_expr)
      [] OTHER -> Fatal(st)

VisitZ3Expr(st, z_expr) ==
    IF st.fatal THEN st
    ELSE IF z_expr.op \in {"quantifier", "var"} THEN Fatal(st)
    ELSE VisitApp(VisitArgs(st, z_expr.args, 1), z_expr)

----------------------------------------------------------------------------
(* Requests of a client, one action per method *)

\* the last call: its name, whether its key was mapped when it began, its
\* arguments and what it returned, each in the field of its type (c_expr:
\* input node, c_decl: declaration, z_expr: term, z_decl: function symbol,
\* c_val: built C expression)
MkLast(op, known, c_expr, c_decl, z_expr, z_decl, c_val) ==
    [op |-> op, known |-> known, c_expr |-> c_expr, c_decl |-> c_decl,
     z_expr |-> z_expr, z_decl |-> z_decl, c_val |-> c_val]

NoRequest == MkLast("none", FALSE, "", "", NullTerm, NullDecl, NullExpr)

\* the tables and the abort flag become those of st
Commit(st) ==
    /\ z3_expr_map' = st.z3_expr_map
    /\ z3_expr_vec' = st.z3_expr_vec
    /\ z3_decl_map' = st.z3_decl_map
    /\ z3_decl_vec' = st.z3_decl_vec
    /\ c_expr_map' = st.c_expr_map
    /\ c_decl_map' = st.c_decl_map
    /\ fatal' = st.fatal

Serving ==
    /\ ~fatal
    /\ nreq < MaxReq
    /\ nreq' = nreq + 1
    /\ UNCHANGED <<ub_name_read, hash_alias, fn_in, fn_out>>

\* terms a solver hands back that the forward translator did not build
TermX == Z3Const(<<"0xa0", "x">>, BvSort(32))

TermX2 == Z3Const(<<"0xa1", "x">>, BvSort(32))

TermQ == Z3Const(<<"0xff", "q">>, BvSort(32))

SolverTerms ==
    { MkTerm("and", <<>>, BoolSort, 0, 0, 0,
             <<Z3Eq(TermX, NumVal(5, BvSort(32))), Z3Eq(TermX2, NumVal(5, BvSort(32))),
               BoolVal(TRUE)>>),
      MkTerm("or", <<>>, BoolSort, 0, 0, 0,
             <<Z3Eq(TermX, TermX2), BoolVal(FALSE), Z3Eq(TermX2, NumVal(5, BvSort(32)))>>),
      MkTerm("badd", <<>>, BvSort(32), 0, 0, 0, <<TermX, TermX2, NumVal(5, BvSort(32))>>),
      MkTerm("ite", <<>>, BvSort(32), 0, 0, 0, <<BoolVal(TRUE), TermX, TermX2>>),
      NumVal(5, BvSort(32)),
      TermQ }

\* the terms a client asks the reverse translator for
TermInputs == {z3_expr_vec[i] : i \in 1..Len(z3_expr_vec)} \cup SolverTerms

\* the sets of distinct terms whose z3 hashes may coincide in a run
HashAliases == { <<>>, <<TermX, TermX2>> }

\* keys and values of the direct Insert... / Get... calls
RegNodes == {"n_x", "n_eq"}

RegDecls == {"d_x", "d_f"}

RegTerms == {TermX, TermX2}

RegFuncDecls == {FuncDeclOf(TermX), FuncDeclOf(TermQ)}

RegCExprs == {CreateDeclRefExpr("d_x"), CreateIntegerLiteral(5, <<"uint">>)}

CallGetOrCreateZ3Expr(c_expr) ==
    /\ Serving
    /\ LET st == GetOrCreateZ3Expr(St, c_expr)
       IN /\ Commit(st)
          /\ last' = MkLast("GetOrCreateZ3Expr", HasZ3Expr(St, c_expr),
                      c_expr, "",
                            IF st.fatal THEN NullTerm ELSE GetZ3Expr(st, c_expr),
                            NullDecl, NullExpr)

CallGetOrCreateZ3Decl(c_decl) ==
    /\ Serving
    /\ LET st == GetOrCreateZ3Decl(St, c_decl)
       IN /\ Commit(st)
          /\ last' = MkLast("GetOrCreateZ3Decl", HasZ3Decl(St, c_decl),
                      "", c_decl, NullTerm,
                            IF st.fatal THEN NullDecl ELSE GetZ3Decl(st, c_decl),
                            NullExpr)

CallGetOrCreateCExpr(z_expr) ==
    /\ Serving
    /\ LET st == GetOrCreateCExpr(St, z_expr)
       IN /\ Commit(st)
          /\ last' = MkLast("GetOrCreateCExpr", HasCExpr(St, z_expr),
                      "", "", z_expr, NullDecl,
                            IF st.fatal THEN NullExpr ELSE GetCExpr(st, z_expr))

CallInsertZ3Expr(c_expr, z_expr) ==
    /\ Serving
    /\ Commit(InsertZ3Expr(St, c_expr, z_expr))
    /\ last' = MkLast("InsertZ3Expr", HasZ3Expr(St, c_expr),
                      c_expr, "", z_expr, NullDecl, NullExpr)

CallGetZ3Expr(c_expr) ==
    /\ Serving
    /\ Commit(IF HasZ3Expr(St, c_expr) THEN St ELSE Fatal(St))
    /\ last' = MkLast("GetZ3Expr", HasZ3Expr(St, c_expr),
                      c_expr, "", GetZ3Expr(St, c_expr), NullDecl, NullExpr)

CallInsertZ3Decl(c_decl, z_decl) ==
    /\ Serving
    /\ Commit(InsertZ3Decl(St, c_decl, z_decl))
    /\ last' = MkLast("InsertZ3Decl", HasZ3Decl(St, c_decl),
                      "", c_decl, NullTerm, z_decl, NullExpr)

CallGetZ3Decl(c_decl) ==
    /\ Serving
    /\ Commit(IF HasZ3Decl(St, c_decl) THEN St ELSE Fatal(St))
    /\ last' = MkLast("GetZ3Decl", HasZ3Decl(St, c_decl),
                      "", c_decl, NullTerm, GetZ3Decl(St, c_decl), NullExpr)

CallInsertCExpr(z_expr, c_val) ==
    /\ Serving
    /\ Commit(InsertCExpr(St, z_expr, c_val))
    /\ last' = MkLast("InsertCExpr", HasCExpr(St, z_expr),
                      "", "", z_expr, NullDecl, c_val)

CallGetCExpr(z_expr) ==
    /\ Serving
    /\ Commit(IF HasCExpr(St, z_expr) THEN St ELSE Fatal(St))
    /\ last' = MkLast("GetCExpr", HasCExpr(St, z_expr),
                      "", "", z_expr, NullDecl, GetCExpr(St, z_expr))

CallInsertCValDecl(z_decl, c_decl) ==
    /\ Serving
    /\ Commit(InsertCValDecl(St, z_decl, c_decl))
    /\ last' = MkLast("InsertCValDecl", HasCValDecl(St, z_decl),
                      "", c_decl, NullTerm, z_decl, NullExpr)

CallGetCValDecl(z_decl) ==
    /\ Serving
    /\ Commit(IF HasCValDecl(St, z_decl) THEN St ELSE Fatal(St))
    /\ last' = MkLast("GetCValDecl", HasCValDecl(St, z_decl),
                      "", GetCValDecl(St, z_decl), NullTerm, z_decl,
                      NullExpr)

MkFnInput(fn, expr, src, dst, sign, v) ==
    [fn |-> fn, expr |-> expr, src |-> src, dst |-> dst, sign |-> sign, v |-> v]

FnIdle == MkFnInput("none", NullTerm, 0, 0, FALSE, 0)

FnNoResult == [done |-> FALSE, z |-> NullTerm]

\* the state after construction (Z3ConvVisitor::Z3ConvVisitor)
EmptyRegistry ==
    /\ z3_expr_map = EmptyMap
    /\ z3_expr_vec = <<>>
    /\ z3_decl_map = EmptyMap
    /\ z3_decl_vec = <<>>
    /\ c_expr_map = EmptyMap
    /\ c_decl_map = EmptyMap
    /\ fatal = FALSE
    /\ last = NoRequest
    /\ nreq = 0

Init ==
    /\ EmptyRegistry
    /\ ub_name_read \in {"intact", "stale"}
    /\ hash_alias \in HashAliases
    /\ fn_in = FnIdle
    /\ fn_out = FnNoResult

\* the lookups a client makes directly
Lookups ==
    \/ \E c_expr \in RegNodes : CallGetZ3Expr(c_expr)
    \/ \E c_decl \in RegDecls : CallGetZ3Decl(c_decl)
    \/ \E z_expr \in RegTerms : CallGetCExpr(z_expr)
    \/ \E z_decl \in RegFuncDecls : CallGetCValDecl(z_decl)

Next ==
    \/ \E c_expr \in Nodes : CallGetOrCreateZ3Expr(c_expr)
    \/ \E c_decl \in Decls : CallGetOrCreateZ3Decl(c_decl)
    \/ \E z_expr \in TermInputs : CallGetOrCreateCExpr(z_expr)
    \/ Lookups

Spec == Init /\ [][Next]_vars

\* the registry driven directly: inserts and lookups on a few keys, with the
\* get-or-create calls on the same keys
RegNext ==
    \/ \E c_expr \in RegNodes, z_expr \in RegTerms : CallInsertZ3Expr(c_expr, z_expr)
    \/ \E c_decl \in RegDecls, z_decl \in RegFuncDecls : CallInsertZ3Decl(c_decl, z_decl)
    \/ \E z_expr \in RegTerms, c_val \in RegCExprs : CallInsertCExpr(z_expr, c_val)
    \/ \E z_decl \in RegFuncDecls, c_decl \in RegDecls : CallInsertCValDecl(z_decl, c_decl)
    \/ \E c_expr \in RegNodes : CallGetOrCreateZ3Expr(c_expr)
    \/ \E c_decl \in RegDecls : CallGetOrCreateZ3Decl(c_decl)
    \/ \E z_expr \in RegTerms : CallGetOrCreateCExpr(z_expr)
    \/ Lookups

SpecReg == Init /\ [][RegNext]_vars

----------------------------------------------------------------------------
(* The helpers CreateZ3BitwiseCast and Z3BoolCast on their own: Init draws   *)
(* the arguments, the action applies the helper.                             *)

\* (source width, destination width) of the casts tried
CastPairs == { <<8, 8>>, <<8, 16>>, <<16, 8>>, <<16, 16>>, <<32, 8>>, <<32, 16>> }

\* values of the operand tried (those that fit the source width)
CastValues == {0, 1, 2, 3, 127, 128, 129, 200, 255, 256, 32767, 32768, 65535}

\* the operand of a cast: a bit-vector constant of the source width
CastOperand(src) == Z3Const(<<"0xa0", "x">>, BvSort(src))

TermP == Z3Const(<<"0xa3", "p">>, BvSort(64))

\* terms handed to Z3BoolCast
BoolCastTerms ==
    { BoolVal(TRUE), BoolVal(FALSE), Z3Eq(TermX, NumVal(5, BvSort(32))),
      Z3Not(Z3Eq(TermX, TermX2)), Z3Distinct(TermX, TermX2),
      TermX, TermP, NumVal(0, BvSort(32)), NumVal(5, BvSort(32)), NumVal(0, BvSort(64)),
      Z3BvBin("badd", TermX, TermX2), Z3Func("Deref", BvSort(32), <<TermP>>),
      Z3Extract(TermX, 8, 1) }

FnInputs ==
    UNION { { MkFnInput("CreateZ3BitwiseCast", CastOperand(p[1]), p[1], p[2], sign, v) :
                sign \in BOOLEAN,
                v \in {w \in CastValues : p[1] >= 32 \/ w < 2 ^ p[1]} } :
            p \in CastPairs }
    \cup { MkFnInput("CreateZ3BitwiseCast", BoolVal(TRUE), 8, 16, FALSE, 0) }
    \cup { MkFnInput("Z3BoolCast", t, 0, 0, FALSE, 0) : t \in BoolCastTerms }

FnInit ==
    /\ EmptyRegistry
    /\ ub_name_read = "intact"
    /\ hash_alias = <<>>
    /\ fn_in \in FnInputs
    /\ fn_out = FnNoResult

FnUnchanged ==
    UNCHANGED <<z3_expr_map, z3_expr_vec, z3_decl_map, z3_decl_vec, c_expr_map,
                c_decl_map, fatal, last, nreq, ub_name_read, hash_alias, fn_in>>

ApplyCreateZ3BitwiseCast ==
    /\ fn_in.fn = "CreateZ3BitwiseCast"
    /\ ~fn_out.done
    /\ fn_out' = [done |-> TRUE,
                  z |-> CreateZ3BitwiseCast(fn_in.expr, fn_in.src, fn_in.dst, fn_in.sign)]
    /\ FnUnchanged

ApplyZ3BoolCast ==
    /\ fn_in.fn = "Z3BoolCast"
    /\ ~fn_out.done
    /\ fn_out' = [done |-> TRUE, z |-> Z3BoolCast(fn_in.expr)]
    /\ FnUnchanged

FnNext == ApplyCreateZ3BitwiseCast \/ ApplyZ3BoolCast

SpecFn == FnInit /\ [][FnNext]_vars

\* the value of the bit-vector term z (an operand, or an extension or
\* extraction of it) when the operand, of width src, has the value v
EvalCast(z, v, src) ==
    CASE z.op = "sign_ext" ->
            IF v >= 2 ^ (src - 1) THEN v + (2 ^ z.hi - 1) * 2 ^ src ELSE v
      [] z.op = "zero_ext" -> v
      [] z.op = "extract" -> (v \div 2 ^ z.lo) % 2 ^ (z.hi - z.lo + 1)
      [] OTHER -> v

----------------------------------------------------------------------------
(* Properties                                                                *)

\* the input expression e as a tree
RECURSIVE Tree(_)
Tree(e) ==
    MkCExpr(Node[e].kind, Node[e].op, Node[e].type,
            [i \in 1..Len(Node[e].sub) |-> Tree(Node[e].sub[i])],
            Node[e].decl, Node[e].val)

\* what is observed of an expression: its kind, operator, declaration and
\* value, the type of a literal, and the same of its operands in order
RECURSIVE Obs(_)
Obs(c) ==
    [kind |-> c.kind, op |-> c.op, decl |-> c.decl, val |-> c.val,
     type |-> IF c.kind \in {"IntegerLiteral", "CharacterLiteral"} THEN c.type ELSE <<>>,
     sub |-> [i \in 1..Len(c.sub) |-> Obs(c.sub[i])]]

\* the node kinds, operators and cast kinds the forward translator handles
SupportedKind(n) ==
    \/ n.kind \in {"IntegerLiteral", "CharacterLiteral", "MemberExpr",
                   "ArraySubscriptExpr", "ParenExpr"}
    \/ n.kind = "DeclRefExpr" /\ Decl[n.decl].kind # "function"
    \/ n.kind = "UnaryOperator" /\ n.op \in {"LNot", "AddrOf", "Deref"}
    \/ n.kind = "BinaryOperator"
         /\ n.op \in {"LAnd", "LOr", "EQ", "NE", "Rem", "Add", "Sub", "And", "Xor", "Shr"}
    \/ n.kind = "CStyleCastExpr"
         /\ n.op \in {"IntegralCast", "PointerToIntegral", "IntegralToPointer",
                      "NullToPointer"}
    \/ n.kind = "ImplicitCastExpr" /\ n.op = "ArrayToPointerDecay"

\* e and all its sub-expressions are of supported kinds
RECURSIVE Supported(_)
Supported(e) ==
    /\ SupportedKind(Node[e])
    /\ \A i \in 1..Len(Node[e].sub) : Supported(Node[e].sub[i])

TablesUnchanged ==
    UNCHANGED <<z3_expr_map, z3_expr_vec, z3_decl_map, z3_decl_vec, c_expr_map, c_decl_map>>

\* C1 - round-trip identity: whenever the reverse translator has just been
\* asked for the term registered for an expression E built from supported
\* node kinds, the request did not abort and the expression it returned has
\* the same literal values and types, operators and operand structure as E.
C1_RoundTripIdentity ==
    \A e \in Nodes :
        (/\ Supported(e)
         /\ HasZ3Expr(St, e)
         /\ last.op = "GetOrCreateCExpr"
         /\ last.z_expr = GetZ3Expr(St, e))
        => (~fatal /\ Obs(last.c_val) = Obs(Tree(e)))

\* C2 - memoization: a get-or-create call on a key that is already mapped
\* returns the value registered for it and leaves the four tables as they
\* are (so a call repeated right after itself returns what the first call
\* returned); no mapping of the expression and declaration tables ever
\* changes; and the expression-to-term table has one entry per node.
C2_Memoization ==
    [][ /\ (last'.op = "GetOrCreateZ3Expr" /\ HasZ3Expr(St, last'.c_expr))
            => /\ TablesUnchanged
               /\ ~fatal'
               /\ last'.z_expr = GetZ3Expr(St, last'.c_expr)
        /\ (last'.op = "GetOrCreateZ3Decl" /\ HasZ3Decl(St, last'.c_decl))
            => /\ TablesUnchanged
               /\ ~fatal'
               /\ last'.z_decl = GetZ3Decl(St, last'.c_decl)
        /\ (last'.op = "GetOrCreateCExpr" /\ HasCExpr(St, last'.z_expr))
            => /\ TablesUnchanged
               /\ ~fatal'
               /\ last'.c_val = GetCExpr(St, last'.z_expr)
        /\ (/\ last'.op = last.op
            /\ last.op \in {"GetOrCreateZ3Expr", "GetOrCreateZ3Decl", "GetOrCreateCExpr"}
            /\ ~fatal
            /\ last'.c_expr = last.c_expr
            /\ last'.c_decl = last.c_decl
            /\ last'.z_expr = last.z_expr)
            => /\ TablesUnchanged
               /\ ~fatal'
               /\ last' = [last EXCEPT !.known = TRUE]
        /\ \A e \in DOMAIN z3_expr_map :
              /\ e \in DOMAIN z3_expr_map'
              /\ z3_expr_vec'[z3_expr_map'[e] + 1] = z3_expr_vec[z3_expr_map[e] + 1]
        /\ \A d \in DOMAIN z3_decl_map :
              /\ d \in DOMAIN z3_decl_map'
              /\ z3_decl_vec'[z3_decl_map'[d] + 1] = z3_decl_vec[z3_decl_map[d] + 1]
        /\ \A k \in DOMAIN c_expr_map : k \in DOMAIN c_expr_map' /\ c_expr_map'[k] = c_expr_map[k]
        /\ \A k \in DOMAIN c_decl_map : k \in DOMAIN c_decl_map' /\ c_decl_map'[k] = c_decl_map[k]
        /\ Len(z3_expr_vec') = Cardinality(DOMAIN z3_expr_map')
        /\ \A e1, e2 \in DOMAIN z3_expr_map' :
              z3_expr_map'[e1] = z3_expr_map'[e2] => e1 = e2
      ]_vars

\* a second request for x && (x == 5) right after the first: the key was mapped,
\* the term returned is the registered one, and the four nodes of the first
\* request (x is referenced by two of them) are the only entries
C2_Witness ==
    /\ nreq = 2
    /\ ~fatal
    /\ last.op = "GetOrCreateZ3Expr"
    /\ last.known
    /\ last.c_expr = "n_land"
    /\ last.z_expr = GetZ3Expr(St, "n_land")
    /\ DOMAIN z3_expr_map = {"n_x", "n_5", "n_eq", "n_land"}

\* the key an insert call of the request record l is for, and whether the
\* table it goes to maps that key
InsertIsMapped(l) ==
    CASE l.op = "InsertZ3Expr" -> l.c_expr \in DOMAIN z3_expr_map
      [] l.op = "InsertZ3Decl" -> l.c_decl \in DOMAIN z3_decl_map
      [] l.op = "InsertCExpr" -> ExprHash(l.z_expr) \in DOMAIN c_expr_map
      [] l.op = "InsertCValDecl" -> FuncDeclId(l.z_decl) \in DOMAIN c_decl_map
      [] OTHER -> FALSE

\* C3 - single insertion: in each of the four tables an insert for a mapped
\* key aborts and leaves every table as it was, and an insert for an
\* unmapped key does not abort and adds that one mapping and nothing else.
C3_SingleInsertion ==
    [][ /\ (last'.op \in {"InsertZ3Expr", "InsertZ3Decl", "InsertCExpr", "InsertCValDecl"}
              /\ InsertIsMapped(last'))
            => (fatal' /\ TablesUnchanged)
        /\ (last'.op = "InsertZ3Expr" /\ ~InsertIsMapped(last'))
            => /\ ~fatal'
               /\ DOMAIN z3_expr_map' = DOMAIN z3_expr_map \cup {last'.c_expr}
               /\ z3_expr_vec'[z3_expr_map'[last'.c_expr] + 1] = last'.z_expr
               /\ \A e \in DOMAIN z3_expr_map :
                     z3_expr_vec'[z3_expr_map'[e] + 1] = z3_expr_vec[z3_expr_map[e] + 1]
               /\ UNCHANGED <<z3_decl_map, z3_decl_vec, c_expr_map, c_decl_map>>
        /\ (last'.op = "InsertZ3Decl" /\ ~InsertIsMapped(last'))
            => /\ ~fatal'
               /\ DOMAIN z3_decl_map' = DOMAIN z3_decl_map \cup {last'.c_decl}
               /\ z3_decl_vec'[z3_decl_map'[last'.c_decl] + 1] = last'.z_decl
               /\ \A d \in DOMAIN z3_decl_map :
                     z3_decl_vec'[z3_decl_map'[d] + 1] = z3_decl_vec[z3_decl_map[d] + 1]
               /\ UNCHANGED <<z3_expr_map, z3_expr_vec, c_expr_map, c_decl_map>>
        /\ (last'.op = "InsertCExpr" /\ ~InsertIsMapped(last'))
            => /\ ~fatal'
               /\ DOMAIN c_expr_map' = DOMAIN c_expr_map \cup {ExprHash(last'.z_expr)}
               /\ c_expr_map'[ExprHash(last'.z_expr)] = last'.c_val
               /\ \A k \in DOMAIN c_expr_map : c_expr_map'[k] = c_expr_map[k]
               /\ UNCHANGED <<z3_expr_map, z3_expr_vec, z3_decl_map, z3_decl_vec, c_decl_map>>
        /\ (last'.op = "InsertCValDecl" /\ ~InsertIsMapped(last'))
            => /\ ~fatal'
               /\ DOMAIN c_decl_map' = DOMAIN c_decl_map \cup {FuncDeclId(last'.z_decl)}
               /\ c_decl_map'[FuncDeclId(last'.z_decl)] = last'.c_decl
               /\ \A k \in DOMAIN c_decl_map : c_decl_map'[k] = c_decl_map[k]
               /\ UNCHANGED <<z3_expr_map, z3_expr_vec, z3_decl_map, z3_decl_vec, c_expr_map>>
      ]_vars

\* a second insert for the term of x, this time with the literal 5, aborted
\* and the table still maps the term to the reference to x
C3_Witness ==
    /\ fatal
    /\ last.op = "InsertCExpr"
    /\ last.known
    /\ last.z_expr = TermX
    /\ last.c_val = CreateIntegerLiteral(5, <<"uint">>)
    /\ GetCExpr(St, TermX) = CreateDeclRefExpr("d_x")

\* C4 - cast width law: the term CreateZ3BitwiseCast builds for a bit-vector
\* operand of width s and a destination width d has width d; for d > s it is
\* the sign extension of the operand when the source is signed and the zero
\* extension otherwise, for d < s its value is the low d bits of the
\* operand's, and for d = s it is the operand.
C4_CastWidthLaw ==
    (fn_in.fn = "CreateZ3BitwiseCast" /\ fn_out.done /\ IsBv(fn_in.expr))
    => /\ GetZ3SortSize(fn_out.z.sort) = fn_in.dst
       /\ (fn_in.dst > fn_in.src /\ fn_in.sign)
            => /\ fn_out.z.op = "sign_ext"
               /\ fn_out.z.args = <<fn_in.expr>>
               /\ EvalCast(fn_out.z, fn_in.v, fn_in.src) =
                    IF fn_in.v >= 2 ^ (fn_in.src - 1)
                    THEN 2 ^ fn_in.dst - (2 ^ fn_in.src - fn_in.v)
                    ELSE fn_in.v
       /\ (fn_in.dst > fn_in.src /\ ~fn_in.sign)
            => /\ fn_out.z.op = "zero_ext"
               /\ fn_out.z.args = <<fn_in.expr>>
               /\ EvalCast(fn_out.z, fn_in.v, fn_in.src) = fn_in.v
       /\ (fn_in.dst < fn_in.src)
            => EvalCast(fn_out.z, fn_in.v, fn_in.src) = fn_in.v % 2 ^ fn_in.dst
       /\ (fn_in.dst = fn_in.src) => fn_out.z = fn_in.expr

\* C5 - boolean-cast law: Z3BoolCast returns a boolean-sorted term as it is
\* and turns any other term t into a boolean-sorted one, true or false for
\* a numeral and the negated equality of t with the zero of t's sort
\* otherwise; casting the result again changes nothing.
C5_BoolCastLaw ==
    (fn_in.fn = "Z3BoolCast" /\ fn_out.done)
    => /\ IsBool(fn_out.z)
       /\ IsBool(fn_in.expr) => fn_out.z = fn_in.expr
       /\ (~IsBool(fn_in.expr) /\ fn_in.expr.op = "bnum")
            => fn_out.z = BoolVal(fn_in.expr.val # 0)
       /\ (~IsBool(fn_in.expr) /\ fn_in.expr.op # "bnum")
            => fn_out.z = Z3Not(Z3Eq(fn_in.expr, NumVal(0, fn_in.expr.sort)))
       /\ Z3BoolCast(fn_out.z) = fn_out.z

\* the cast of the pointer variable p is the negated equality with the
\* 64-bit zero, and the cast of the boolean x == 5 is x == 5
C5_Witness ==
    /\ fn_out.done
    /\ fn_in.fn = "Z3BoolCast"
    /\ \/ /\ fn_in.expr = TermP
          /\ fn_out.z = Z3Not(Z3Eq(TermP, NumVal(0, BvSort(64))))
       \/ /\ fn_in.expr = Z3Eq(TermX, NumVal(5, BvSort(32)))
          /\ fn_out.z = fn_in.expr

\* an integral C-style cast to a narrower unsigned integer type
IsNarrowingToUnsigned(n) ==
    /\ n.kind = "CStyleCastExpr"
    /\ n.op = "IntegralCast"
    /\ IsUnsignedIntegerType(n.type)
    /\ IsIntegerType(Node[n.sub[1]].type)
    /\ TypeSize(n.type) < TypeSize(Node[n.sub[1]].type)

\* C6 - narrowing cast: the term registered for an integral cast to a
\* narrower unsigned type of width d is an extraction of width d, and a
\* request to decode that term returns a cast expression whose type is the
\* unsigned integer type of width d.
C6_NarrowingCast ==
    \A e \in Nodes :
        (IsNarrowingToUnsigned(Node[e]) /\ HasZ3Expr(St, e))
        => /\ GetZ3Expr(St, e).op = "extract"
           /\ GetZ3Expr(St, e).sort = BvSort(TypeSize(Node[e].type))
           /\ (last.op = "GetOrCreateCExpr" /\ last.z_expr = GetZ3Expr(St, e))
                => /\ ~fatal
                   /\ last.c_val.kind = "CStyleCastExpr"
                   /\ last.c_val.type = IntTypeForBitwidth(TypeSize(Node[e].type), FALSE)

\* C7 - member access: the term registered for a.f is the application
\* Member(term(a), symbol(f)) with the 0-ary symbol registered for f, and a
\* request to decode that term returns a member access whose base refers to
\* a's declaration and whose member is f, whatever else is registered.
C7_MemberAccess ==
    \A e \in Nodes :
        (Node[e].kind = "MemberExpr" /\ HasZ3Expr(St, e))
        => /\ HasZ3Decl(St, Node[e].decl)
           /\ GetZ3Expr(St, e).op = "uninterpreted"
           /\ GetZ3Expr(St, e).name = <<"Member">>
           /\ GetZ3Expr(St, e).args =
                <<GetZ3Expr(St, Node[e].sub[1]),
                  Z3Const(GetZ3Decl(St, Node[e].decl).name,
                          GetZ3Decl(St, Node[e].decl).range)>>
           /\ (last.op = "GetOrCreateCExpr" /\ last.z_expr = GetZ3Expr(St, e))
                => /\ ~fatal
                   /\ last.c_val.kind = "MemberExpr"
                   /\ last.c_val.decl = Node[e].decl
                   /\ last.c_val.sub = <<CreateDeclRefExpr(Node[Node[e].sub[1]].decl)>>

\* no negation, conjunction or disjunction in t has a non-boolean argument
RECURSIVE NativeBooleanOnly(_)
NativeBooleanOnly(t) ==
    /\ t.op \in {"not", "and", "or"} => \A i \in 1..Len(t.args) : IsBool(t.args[i])
    /\ \A i \in 1..Len(t.args) : NativeBooleanOnly(t.args[i])

\* the truth value of the term t: t if boolean, true or false for a
\* numeral, and the negated equality with zero otherwise
Truth(t) ==
    IF IsBool(t) THEN t
    ELSE IF t.op = "bnum" THEN BoolVal(t.val # 0)
    ELSE Z3Not(Z3Eq(t, NumVal(0, t.sort)))

\* C8 - truthiness: the term registered for a logical not, and or or is the
\* boolean-sorted native operator over the truth values of the operand
\* terms, and no registered term applies a native negation, conjunction or
\* disjunction to a non-boolean term.
C8_Truthiness ==
    /\ \A e \in DOMAIN z3_expr_map :
          /\ NativeBooleanOnly(GetZ3Expr(St, e))
          /\ (Node[e].kind = "UnaryOperator" /\ Node[e].op = "LNot")
                => /\ IsBool(GetZ3Expr(St, e))
                   /\ GetZ3Expr(St, e) = Z3Not(Truth(GetZ3Expr(St, Node[e].sub[1])))
          /\ (Node[e].kind = "BinaryOperator" /\ Node[e].op = "LAnd")
                => /\ IsBool(GetZ3Expr(St, e))
                   /\ GetZ3Expr(St, e) = Z3And(Truth(GetZ3Expr(St, Node[e].sub[1])),
                                               Truth(GetZ3Expr(St, Node[e].sub[2])))
          /\ (Node[e].kind = "BinaryOperator" /\ Node[e].op = "LOr")
                => /\ IsBool(GetZ3Expr(St, e))
                   /\ GetZ3Expr(St, e) = Z3Or(Truth(GetZ3Expr(St, Node[e].sub[1])),
                                              Truth(GetZ3Expr(St, Node[e].sub[2])))

\* !p, x && (x == 5) and p || 0 are registered: the pointer p and the
\* integer x are compared with zero, x == 5 is taken as it is
C8_Witness ==
    /\ ~fatal
    /\ \/ /\ HasZ3Expr(St, "n_notp")
          /\ GetZ3Expr(St, "n_notp") =
                Z3Not(Z3Not(Z3Eq(TermP, NumVal(0, BvSort(64)))))
       \/ /\ HasZ3Expr(St, "n_land")
          /\ GetZ3Expr(St, "n_land") =
                Z3And(Z3Not(Z3Eq(TermX, NumVal(0, BvSort(32)))),
                      Z3Eq(TermX, NumVal(5, BvSort(32))))
          /\ HasZ3Expr(St, "n_lor")

\* e or one of its sub-expressions is a function call, refers to a function
\* declaration, or is of a kind, operator or cast kind outside the set
Unsupported(e) == ~Supported(e)

\* C9 - all or nothing: a forward request either aborts or returns the term
\* now registered for its expression; it aborts when the expression has an
\* unsupported sub-expression; and a get on a key its table does not map
\* aborts, in each of the four tables.
C9_AllOrNothing ==
    [][ /\ last'.op = "GetOrCreateZ3Expr"
            => /\ fatal' \/ (/\ last'.c_expr \in DOMAIN z3_expr_map'
                             /\ last'.z_expr # NullTerm
                             /\ last'.z_expr =
                                  z3_expr_vec'[z3_expr_map'[last'.c_expr] + 1])
               /\ Unsupported(last'.c_expr) => fatal'
        /\ (last'.op = "GetZ3Expr" /\ ~HasZ3Expr(St, last'.c_expr)) => fatal'
        /\ (last'.op = "GetZ3Decl" /\ ~HasZ3Decl(St, last'.c_decl)) => fatal'
        /\ (last'.op = "GetCExpr" /\ ~HasCExpr(St, last'.z_expr)) => fatal'
        /\ (last'.op = "GetCValDecl" /\ ~HasCValDecl(St, last'.z_decl)) => fatal'
      ]_vars

\* the request for x + fn() aborted, after a request for x that returned
\* the term registered for x
C9_Witness ==
    /\ nreq = 2
    /\ fatal
    /\ last.op = "GetOrCreateZ3Expr"
    /\ last.c_expr = "n_addc"
    /\ HasZ3Expr(St, "n_x")
    /\ ~HasZ3Expr(St, "n_addc")

\* C10 - declaration tables are mutually inverse: every registered
\* declaration's symbol is mapped back to that declaration by the
\* symbol-to-declaration table, and two distinct registered declarations
\* have distinct symbols.
C10_DeclTablesInverse ==
    /\ \A d \in DOMAIN z3_decl_map :
          /\ HasCValDecl(St, GetZ3Decl(St, d))
          /\ GetCValDecl(St, GetZ3Decl(St, d)) = d
    /\ \A d1, d2 \in DOMAIN z3_decl_map :
          GetZ3Decl(St, d1) = GetZ3Decl(St, d2) => d1 = d2

\* the uninterpreted functions the forward translator applies
NamedFunctions ==
    { <<"AddrOf">>, <<"Deref">>, <<"ArraySub">>, <<"Member">>, <<"PtrToInt">>,
      <<"IntToPtr">>, <<"PtrDecay">>, <<"Paren">> }

\* t is an application of one of the named uninterpreted functions
IsNamedApp(t) == t.op = "uninterpreted" /\ t.name \in NamedFunctions

\* the application Paren(t)
ParenApp(t) == MkTerm("uninterpreted", <<"Paren">>, t.sort, 0, 0, 0, <<t>>)

\* a returned request to decode a Paren application returned a parenthesized
\* expression around the expression registered for the operand
ParenDecoded ==
    (/\ last.op = "GetOrCreateCExpr"
     /\ ~fatal
     /\ last.z_expr.op = "uninterpreted"
     /\ last.z_expr.name = <<"Paren">>)
    => /\ HasCExpr(St, last.z_expr.args[1])
       /\ last.c_val.kind = "ParenExpr"
       /\ last.c_val.sub = <<GetCExpr(St, last.z_expr.args[1])>>

\* C11 - parenthesization rule, as claimed: the term registered for (S) is
\* Paren(term(S)) exactly when term(S) is an application of AddrOf, Deref,
\* ArraySub, Member, PtrToInt, IntToPtr, PtrDecay or Paren, and term(S)
\* itself otherwise; a decoded Paren application is a parenthesized
\* expression around the decoded operand.
C11_ParenRule ==
    /\ \A e \in DOMAIN z3_expr_map :
          Node[e].kind = "ParenExpr"
          => GetZ3Expr(St, e) =
                IF IsNamedApp(GetZ3Expr(St, Node[e].sub[1]))
                THEN ParenApp(GetZ3Expr(St, Node[e].sub[1]))
                ELSE GetZ3Expr(St, Node[e].sub[1])
    /\ ParenDecoded

\* C11 - parenthesization rule, amended: the term registered for (S) is
\* Paren(term(S)) exactly when term(S) is an application of an uninterpreted
\* symbol, one of the named functions or the 0-ary constant of a variable or
\* field, and term(S) itself for every native term; a decoded Paren
\* application is a parenthesized expression around the decoded operand.
C11_ParenRuleAmended ==
    /\ \A e \in DOMAIN z3_expr_map :
          Node[e].kind = "ParenExpr"
          => /\ HasZ3Expr(St, Node[e].sub[1])
             /\ (\/ IsNamedApp(GetZ3Expr(St, Node[e].sub[1]))
                 \/ \E d \in DOMAIN z3_decl_map :
                       GetZ3Expr(St, Node[e].sub[1]) =
                          Z3Const(GetZ3Decl(St, d).name, GetZ3Decl(St, d).range))
                  => GetZ3Expr(St, e) = ParenApp(GetZ3Expr(St, Node[e].sub[1]))
             /\ GetZ3Expr(St, Node[e].sub[1]).op # "uninterpreted"
                  => GetZ3Expr(St, e) = GetZ3Expr(St, Node[e].sub[1])
             /\ \/ GetZ3Expr(St, Node[e].sub[1]).op # "uninterpreted"
                \/ IsNamedApp(GetZ3Expr(St, Node[e].sub[1]))
                \/ \E d \in DOMAIN z3_decl_map :
                      GetZ3Expr(St, Node[e].sub[1]) =
                         Z3Const(GetZ3Decl(St, d).name, GetZ3Decl(St, d).range)
    /\ ParenDecoded

\* ((*p)) was encoded as Paren(Paren(Deref(p))) and decoded to a
\* parenthesized expression around ( *p ), or (x + x) was encoded as the
\* sum itself and (x) as Paren(x)
C11_Witness ==
    /\ ~fatal
    /\ \/ /\ HasZ3Expr(St, "n_parp")
          /\ GetZ3Expr(St, "n_parp") =
                ParenApp(ParenApp(Z3Func("Deref", BvSort(32), <<TermP>>)))
          /\ last.op = "GetOrCreateCExpr"
          /\ last.z_expr = GetZ3Expr(St, "n_parp")
          /\ last.c_val.kind = "ParenExpr"
          /\ last.c_val.sub[1].kind = "ParenExpr"
          /\ last.c_val.sub[1].sub[1].op = "Deref"
       \/ /\ HasZ3Expr(St, "n_para")
          /\ GetZ3Expr(St, "n_para") = Z3BvBin("badd", TermX, TermX2)
          /\ HasZ3Expr(St, "n_parx")
          /\ GetZ3Expr(St, "n_parx") = ParenApp(TermX)

\* c is the left-nested opc over the expressions registered for
\* args[1..n], in that order
RECURSIVE IsLeftFold(_, _, _, _)
IsLeftFold(c, args, n, opc) ==
    IF n = 1 THEN c = GetCExpr(St, args[1])
    ELSE /\ c.kind = "BinaryOperator"
         /\ c.op = opc
         /\ Len(c.sub) = 2
         /\ c.sub[2] = GetCExpr(St, args[n])
         /\ IsLeftFold(c.sub[1], args, n - 1, opc)

\* a returned request to decode a conjunction or disjunction of two or
\* more arguments returned the left-nested && or || over the decoded
\* arguments
LogicalFolded ==
    (/\ last.op = "GetOrCreateCExpr"
     /\ ~fatal
     /\ last.z_expr.op \in {"and", "or"}
     /\ Len(last.z_expr.args) >= 2)
    => /\ \A i \in 1..Len(last.z_expr.args) : HasCExpr(St, last.z_expr.args[i])
       /\ IsLeftFold(last.c_val, last.z_expr.args, Len(last.z_expr.args),
                     IF last.z_expr.op = "and" THEN "LAnd" ELSE "LOr")

\* C12 - n-ary conjunction and disjunction: a decoded and (or) term of
\* n >= 2 arguments is the left-nested && (||) over the decoded arguments,
\* each once and in order, and a request to decode a term of three or more
\* arguments with any other operator aborts.
C12_NaryLogical ==
    /\ LogicalFolded
    /\ (/\ last.op = "GetOrCreateCExpr"
        /\ Len(last.z_expr.args) >= 3
        /\ last.z_expr.op \notin {"and", "or"})
       => fatal

\* the expression x occurs in the expression c
RECURSIVE Contains(_, _)
Contains(c, x) == c = x \/ \E i \in 1..Len(c.sub) : Contains(c.sub[i], x)

\* C13 - no argument dropped: the expression returned for an addition,
\* signed remainder or equality term contains the decoded expression of
\* every argument of the term.
C13_NoArgumentDropped ==
    (/\ last.op = "GetOrCreateCExpr"
     /\ ~fatal
     /\ last.z_expr.op \in {"badd", "bsrem", "bsrem_i", "eq"})
    => \A i \in 1..Len(last.z_expr.args) :
          /\ HasCExpr(St, last.z_expr.args[i])
          /\ Contains(last.c_val, GetCExpr(St, last.z_expr.args[i]))

\* the 0-ary constant of the registered declaration d
ConstOf(d) == Z3Const(GetZ3Decl(St, d).name, GetZ3Decl(St, d).range)

\* C14 - reverse lookups never alias: a returned request yields a non-null
\* expression; the expression the term-to-expression table gives for the
\* constant of a declaration is the reference decoded from that constant;
\* and two different constants never share an entry of the table.
C14_NoAlias ==
    /\ (last.op = "GetOrCreateCExpr" /\ ~fatal) => last.c_val # NullExpr
    /\ \A d \in DOMAIN z3_decl_map :
          HasCExpr(St, ConstOf(d))
          => GetCExpr(St, ConstOf(d)) =
                CreateDeclRefExpr(GetCValDecl(St, GetZ3Decl(St, d)))
    /\ \A d1, d2 \in DOMAIN z3_decl_map :
          (ConstOf(d1) # ConstOf(d2) /\ HasCExpr(St, ConstOf(d1)))
          => ExprHash(ConstOf(d1)) # ExprHash(ConstOf(d2))

====
